---- MODULE Spec2Model ----
(***************************************************************************)
(* Model of the experiment tree search of src/tot/agent.py: Agent.step     *)
(* with its search policy, plan+code generation, execution and review,     *)
(* over the Journal / Node / MetricValue data structures.                  *)
(*                                                                         *)
(* Python's None is the empty sequence and an optional value x is <<x>>.   *)
(* Probabilities and random draws are integers in percent.                 *)
(***************************************************************************)
EXTENDS Integers, Sequences, FiniteSets, TLC

\* ------------------------------------------------------------------------
\* Bounds of the model
\* ------------------------------------------------------------------------
MaxNodes == 3          \* the journal holds at most this many nodes
MaxMetric == 2         \* metric values reported by a review are 1..MaxMetric
MaxDrafts == 2         \* num_drafts is 1..MaxDrafts
MaxDepthCfg == 1       \* max_debug_depth is 0..MaxDepthCfg
MaxSteps == 2          \* num_steps of an experiment is 1..MaxSteps
MaxRequests == 2       \* POST /run requests for the experiment

None == <<>>
Some(x) == <<x>>

\* retries: int = 3 of plan_and_code_query
retries == 3

\* outcomes of random.random(), a float in [0, 1), in percent
Draws == {0, 50, 99}
\* values of cfg.agent.search.debug_prob, in percent
DebugProbs == {0, 50, 100}

Configs ==
    [num_drafts : 1..MaxDrafts, debug_prob : DebugProbs, max_debug_depth : 0..MaxDepthCfg]

VARIABLES
    cfg,            \* self.acfg.search
    journal,        \* self.journal.nodes, in append order; step = index - 1
    data_preview,   \* self.data_preview
    pc,             \* position inside Agent.step
    draw,           \* the value random.random() returned in search_policy, if it was called
    parent_node,    \* step(): parent_node
    mode,           \* which of _draft, _improve, _debug step() called
    tries,          \* plan_and_code_query: number of backend queries issued
    completion_text, \* plan_and_code_query: the completion of the last query
    plan_code,      \* the (plan, code) plan_and_code_query returned
    result_node,    \* step(): result_node
    exec_result,    \* what exec_callback returned
    response,       \* parse_exec_result: response of the review query
    experiment,     \* the Experiment row of the backend's database
    run,            \* run_experiment_async: the locals of each background task
    api,            \* POST /{experiment_id}/run: the state of each request
    prompt_loader,  \* prompts/loader.py: the global _prompt_loader
    loaders,        \* the PromptLoader objects created so far
    prompts,        \* self.prompts of the agent
    other,          \* a second, independent Journal + Agent pair
    rows,           \* the ExperimentNode rows of the experiment, in insertion order
    report,         \* the FeatureAnalysisReport row of the experiment
    active_connections, \* api/experiments.py: active_connections[experiment_id]
    sockets,        \* websocket_endpoint: the position of each client's handler
    sent            \* the messages websocket_callback delivered

\* the agent and its journal
agent_vars ==
    <<cfg, journal, data_preview, pc, draw, parent_node, mode, tries, completion_text,
      plan_code, result_node, exec_result, response>>

\* the backend service around the agent
service_vars == <<experiment, run, api>>

\* what else lives in the process
process_vars == <<prompt_loader, loaders, prompts, other>>

\* the stored rows besides the experiment, and the websocket side
backend_vars == <<rows, report, active_connections, sockets, sent>>

vars == <<agent_vars, service_vars, process_vars, backend_vars>>

\* ------------------------------------------------------------------------
\* MetricValue / WorstMetricValue
\* ------------------------------------------------------------------------
WorstMetricValue == [kind |-> "WorstMetricValue"]
MetricValue(value, maximize) == [kind |-> "MetricValue", value |-> value, maximize |-> maximize]

is_worst(m) == m.kind = "WorstMetricValue"

\* the worst value winning against another worst value
is_better_worst_first(a, b) ==
    IF is_worst(b) THEN TRUE
    ELSE IF is_worst(a) THEN FALSE
    ELSE IF a.maximize THEN a.value[1] > b.value[1]
    ELSE a.value[1] < b.value[1]

\* a is better than b
is_better(a, b) ==
    IF is_worst(a) THEN FALSE
    ELSE IF is_worst(b) THEN TRUE
    ELSE IF a.maximize THEN a.value[1] > b.value[1]
    ELSE a.value[1] < b.value[1]

\* ------------------------------------------------------------------------
\* Node and Journal
\* ------------------------------------------------------------------------
\* A node's plan and code are payload that neither the search policy nor the
\* review classification reads; step() holds them in plan_code while it runs
\* and the journal's nodes are kept without them.
Node(parent) ==
    [parent |-> parent, step |-> None,
     exc_type |-> None, analysis |-> None, is_buggy |-> None, metric |-> None]

nodes(j) == 1..Len(j)

draft_nodes(j) == {n \in nodes(j) : j[n].parent = None}
buggy_nodes(j) == {n \in nodes(j) : j[n].is_buggy = Some(TRUE)}
good_nodes(j) == {n \in nodes(j) : j[n].is_buggy = Some(FALSE)}

children(j, n) == {m \in nodes(j) : j[m].parent = Some(n)}
is_leaf(j, n) == children(j, n) = {}

RECURSIVE debug_depth(_, _)
debug_depth(j, n) ==
    IF j[n].parent = None THEN 0
    ELSE IF j[j[n].parent[1]].is_buggy = Some(TRUE)
         THEN debug_depth(j, j[n].parent[1]) + 1
         ELSE 0

\* the best of the candidates cand, scanned in append order starting at n,
\* with best the best found so far
RECURSIVE best_from(_, _, _, _)
best_from(j, cand, n, best) ==
    IF n > Len(j) THEN best
    ELSE IF n \in cand /\ (best = None \/ is_better(j[n].metric[1], j[best[1]].metric[1]))
         THEN best_from(j, cand, n + 1, Some(n))
         ELSE best_from(j, cand, n + 1, best)

\* the first candidate instead of the best
get_best_node_first(j, only_good) ==
    LET cand == IF only_good THEN good_nodes(j) ELSE nodes(j) IN
    IF cand = {} THEN None ELSE Some(CHOOSE n \in cand : \A m \in cand : n <= m)

\* all nodes taken as candidates when there is no good one
get_best_node_fallback_all(j, only_good) ==
    best_from(j, IF only_good /\ good_nodes(j) # {} THEN good_nodes(j) ELSE nodes(j), 1, None)

get_best_node(j, only_good) ==
    best_from(j, IF only_good THEN good_nodes(j) ELSE nodes(j), 1, None)

\* every node stamped with the same step
journal_append_same_step(j, node) == Append(j, [node EXCEPT !.step = Some(0)])

\* append assigns the node the next step index
journal_append(j, node) == Append(j, [node EXCEPT !.step = Some(Len(j))])

\* ------------------------------------------------------------------------
\* Agent.search_policy
\* ------------------------------------------------------------------------
\* the quota test off by one
not_enough_drafts_off_by_one(j, c) == Cardinality(draft_nodes(j)) + 1 < c.num_drafts

not_enough_drafts(j, c) == Cardinality(draft_nodes(j)) < c.num_drafts

\* the draw compared with <= instead of <
debug_by_chance_inclusive(r, c) == r <= c.debug_prob

debug_by_chance(r, c) == r < c.debug_prob

\* the debuggable set without the leaf test
debuggable_nodes_non_leaf(j, c) ==
    {n \in buggy_nodes(j) : debug_depth(j, n) <= c.max_debug_depth}

\* the depth bound taken strictly
debuggable_nodes_strict_depth(j, c) ==
    {n \in buggy_nodes(j) : is_leaf(j, n) /\ debug_depth(j, n) < c.max_debug_depth}

\* the debuggable set without the depth bound
debuggable_nodes_any_depth(j, c) ==
    {n \in buggy_nodes(j) : is_leaf(j, n)}

debuggable_nodes(j, c) ==
    {n \in buggy_nodes(j) : is_leaf(j, n) /\ debug_depth(j, n) <= c.max_debug_depth}

\* the greedy branch returning the first good node instead of the best
search_policy_first_good(j, c, r, pick) ==
    IF not_enough_drafts(j, c) THEN None
    ELSE IF debug_by_chance(r, c) /\ debuggable_nodes(j, c) # {} THEN Some(pick)
    ELSE IF good_nodes(j) = {} THEN None
    ELSE Some(CHOOSE n \in good_nodes(j) : \A m \in good_nodes(j) : n <= m)

\* the debug branch tried before the draft quota
search_policy_debug_first(j, c, r, pick) ==
    IF debug_by_chance(r, c) /\ debuggable_nodes(j, c) # {} THEN Some(pick)
    ELSE IF not_enough_drafts(j, c) THEN None
    ELSE IF good_nodes(j) = {} THEN None
    ELSE get_best_node(j, FALSE)

\* a policy that remembers its last selection and does not repeat it
search_policy_remembers(j, c, r, pick) ==
    IF parent_node # None THEN None
    ELSE IF not_enough_drafts(j, c) THEN None
    ELSE IF debug_by_chance(r, c) /\ debuggable_nodes(j, c) # {} THEN Some(pick)
    ELSE IF good_nodes(j) = {} THEN None
    ELSE get_best_node(j, FALSE)

\* a new draft when the debug branch is drawn and finds nothing to debug
search_policy_draft_on_miss(j, c, r, pick) ==
    IF not_enough_drafts(j, c) THEN None
    ELSE IF debug_by_chance(r, c)
         THEN IF debuggable_nodes(j, c) # {} THEN Some(pick) ELSE None
    ELSE IF good_nodes(j) = {} THEN None
    ELSE get_best_node(j, FALSE)

\* r is the outcome of random.random(), pick that of random.choice
search_policy(j, c, r, pick) ==
    IF not_enough_drafts(j, c) THEN None
    ELSE IF debug_by_chance(r, c) /\ debuggable_nodes(j, c) # {} THEN Some(pick)
    ELSE IF good_nodes(j) = {} THEN None
    ELSE get_best_node(j, FALSE)

\* the values random.choice can return
choices(j, c) ==
    IF debuggable_nodes(j, c) = {} THEN {0} ELSE debuggable_nodes(j, c)

\* ------------------------------------------------------------------------
\* Agent.plan_and_code_query
\* ------------------------------------------------------------------------
\* what extract_text_up_to_code and extract_code find in a completion
Completions ==
    {[text |-> "plan and code", nl_text |-> "plan", code |-> "code"],
     [text |-> "code only", nl_text |-> "", code |-> "code"],
     [text |-> "neither", nl_text |-> "", code |-> ""]}

extracted(completion) == completion.code # "" /\ completion.nl_text # ""

\* one query more before giving up
plan_and_code_query_extra_try(t, completion) ==
    IF extracted(completion) THEN Some([plan |-> completion.nl_text, code |-> completion.code])
    ELSE IF t > retries THEN Some([plan |-> "", code |-> completion.text])
    ELSE None

\* the (plan, code) returned after the query number t answered completion;
\* None while the loop goes on
plan_and_code_query(t, completion) ==
    IF extracted(completion) THEN Some([plan |-> completion.nl_text, code |-> completion.code])
    ELSE IF t >= retries THEN Some([plan |-> "", code |-> completion.text])
    ELSE None

\* ------------------------------------------------------------------------
\* Agent.parse_exec_result
\* ------------------------------------------------------------------------
\* the execution callback's ExecutionResult: exc_type
ExecResults == {[exc_type |-> None], [exc_type |-> Some("Exception")]}

\* JSON values a review may carry as its metric
MetricJson ==
    {None, Some([type |-> "str", val |-> 0])}
    \cup {Some([type |-> t, val |-> v]) : t \in {"float", "int"}, v \in 1..MaxMetric}

NotDict == [type |-> "str"]
DictResponses ==
    [type : {"dict"}, is_bug : {None, Some(TRUE), Some(FALSE)}, metric : MetricJson,
     lower_is_better : {None, Some(TRUE), Some(FALSE)}, summary : {Some("summary")}]
Responses == {NotDict} \cup DictResponses

\* the response taken for a dict without a test
is_dict_unchecked(resp) == TRUE

\* isinstance(response, dict)
is_dict(resp) == resp.type = "dict"

\* response.get(key, default)
get(opt, default) == IF opt = None THEN default ELSE opt[1]

\* lines 380-382: response["metric"] after the isinstance check
checked_metric(m) ==
    IF m # None /\ m[1].type = "float" THEN Some(m[1].val) ELSE None

\* the verdict without the missing-metric signal
buggy_verdict_no_metric(resp, exc_type) ==
    \/ get(resp.is_bug, FALSE)
    \/ exc_type # None

\* the verdict without the exception signal
buggy_verdict_no_exc(resp, exc_type) ==
    \/ get(resp.is_bug, FALSE)
    \/ checked_metric(resp.metric) = None

\* lines 385-389
buggy_verdict(resp, exc_type) ==
    \/ get(resp.is_bug, FALSE)
    \/ exc_type # None
    \/ checked_metric(resp.metric) = None

\* the polarity taken over without the negation
review_metric_same_polarity(resp, buggy) ==
    IF buggy THEN WorstMetricValue
    ELSE MetricValue(checked_metric(resp.metric), get(resp.lower_is_better, TRUE))

\* lines 391-397
review_metric(resp, buggy) ==
    IF buggy THEN WorstMetricValue
    ELSE MetricValue(checked_metric(resp.metric), ~ get(resp.lower_is_better, TRUE))

InvalidAnalysis == "Error: Invalid API response received. Unable to parse execution results."

absorb_exec_result(node, res) == [node EXCEPT !.exc_type = res.exc_type]

\* Python: of the review responses only a dict has .get and item assignment
has_get(resp) == resp.type = "dict"

\* the node after parse_exec_result, and whether an exception left it
parse_exec_result(node, res, resp) ==
    LET n == absorb_exec_result(node, res) IN
    IF ~ is_dict(resp)
    THEN [raised |-> FALSE,
          node |-> [n EXCEPT !.analysis = Some(InvalidAnalysis),
                             !.is_buggy = Some(TRUE),
                             !.metric = Some(WorstMetricValue)]]
    ELSE IF ~ has_get(resp)
    THEN [raised |-> TRUE, node |-> n]
    ELSE LET buggy == buggy_verdict(resp, n.exc_type) IN
         [raised |-> FALSE,
          node |-> [n EXCEPT !.analysis = Some(get(resp.summary, "No summary provided")),
                             !.is_buggy = Some(buggy),
                             !.metric = Some(review_metric(resp, buggy))]]

\* ------------------------------------------------------------------------
\* Agent.step
\* ------------------------------------------------------------------------
\* the two generators for a selected parent exchanged
step_mode_swapped(j, parent) ==
    IF parent = None THEN "draft"
    ELSE IF j[parent[1]].is_buggy = Some(TRUE) THEN "improve"
    ELSE "debug"

\* lines 326-331: which generator step() calls for the selected parent
step_mode(j, parent) ==
    IF parent = None THEN "draft"
    ELSE IF j[parent[1]].is_buggy = Some(TRUE) THEN "debug"
    ELSE "improve"

\* _debug building its node without the parent
generate_debug_no_parent(m, parent) ==
    IF m = "improve" THEN Node(parent) ELSE Node(None)

\* lines 232-233, 263-268, 299-300: the Node that _draft, _improve or _debug
\* builds for the selected parent
generate(m, parent) ==
    IF m = "draft" THEN Node(None) ELSE Node(parent)

\* the agent after construction, but for its configuration
InitAgent ==
    /\ journal = <<>>
    /\ data_preview = None
    /\ pc = "idle"
    /\ draw = None
    /\ parent_node = None
    /\ mode = None
    /\ tries = 0
    /\ completion_text = None
    /\ plan_code = None
    /\ result_node = None
    /\ exec_result = None
    /\ response = None

\* the agent used on its own: no backend service around it
NoService ==
    /\ experiment = None
    /\ run = None
    /\ api = None

\* nothing else followed in the process
NoProcess ==
    /\ prompt_loader = None
    /\ loaders = <<>>
    /\ prompts = None
    /\ other = None

NoBackend ==
    /\ rows = <<>>
    /\ report = None
    /\ active_connections = None
    /\ sockets = None
    /\ sent = <<>>

Init ==
    /\ cfg \in Configs
    /\ InitAgent
    /\ NoService
    /\ NoProcess
    /\ NoBackend

\* a policy that marks the node it selects
SearchPolicy_marks_selected ==
    /\ pc = "idle"
    /\ Len(journal) < MaxNodes
    /\ data_preview' = IF journal = <<>> \/ data_preview = None
                       THEN Some("preview") ELSE data_preview
    /\ \E r \in Draws, pick \in choices(journal, cfg) :
          /\ parent_node' = search_policy(journal, cfg, r, pick)
          /\ draw' = IF not_enough_drafts(journal, cfg) THEN None ELSE Some(r)
    /\ journal' = IF parent_node' = None THEN journal
                  ELSE [journal EXCEPT ![parent_node'[1]].analysis = Some("selected")]
    /\ pc' = "selected"
    /\ UNCHANGED <<cfg, mode, tries, completion_text, plan_code, result_node,
                   exec_result, response>>

\* step(), lines 320-323: update_data_preview and search_policy
SearchPolicy ==
    /\ pc = "idle"
    /\ Len(journal) < MaxNodes
    /\ data_preview' = IF journal = <<>> \/ data_preview = None
                       THEN Some("preview") ELSE data_preview
    /\ \E r \in Draws, pick \in choices(journal, cfg) :
          /\ parent_node' = search_policy(journal, cfg, r, pick)
          /\ draw' = IF not_enough_drafts(journal, cfg) THEN None ELSE Some(r)
    /\ pc' = "selected"
    /\ UNCHANGED <<cfg, journal, mode, tries, completion_text, plan_code, result_node,
                   exec_result, response>>

\* step(), lines 326-331: one backend query of _draft, _improve or _debug
PlanAndCodeQuery ==
    /\ pc = "selected"
    /\ \E completion \in Completions :
          LET ret == plan_and_code_query(tries + 1, completion) IN
          /\ mode' = Some(step_mode(journal, parent_node))
          /\ IF ret = None
             THEN /\ tries' = tries + 1
                  /\ completion_text' = Some(completion)
                  /\ UNCHANGED <<pc, plan_code, result_node>>
             ELSE /\ tries' = 0
                  /\ completion_text' = Some(completion)
                  /\ plan_code' = ret
                  /\ result_node' = Some(generate(step_mode(journal, parent_node), parent_node))
                  /\ pc' = "generated"
    /\ UNCHANGED <<cfg, journal, data_preview, draw, parent_node, exec_result, response>>

\* the callback invoked before the candidate code exists
ExecCallback_before_code ==
    /\ pc \in {"selected", "generated"}
    /\ exec_result' \in {Some(e) : e \in ExecResults}
    /\ pc' = "executed"
    /\ UNCHANGED <<cfg, journal, data_preview, draw, parent_node, mode, tries,
                   completion_text, plan_code, result_node, response>>

\* step(), line 335: exec_callback(result_node.code, True)
ExecCallback ==
    /\ pc = "generated"
    /\ exec_result' \in {Some(e) : e \in ExecResults}
    /\ pc' = "executed"
    /\ UNCHANGED <<cfg, journal, data_preview, draw, parent_node, mode, tries,
                   completion_text, plan_code, result_node, response>>

\* the review also written into the parent of the node
ParseExecResult_reviews_parent ==
    /\ pc = "executed"
    /\ \E resp \in Responses :
          LET out == parse_exec_result(result_node[1], exec_result[1], resp) IN
          /\ response' = Some(resp)
          /\ result_node' = Some(out.node)
          /\ journal' = IF parent_node = None THEN journal
                        ELSE [journal EXCEPT ![parent_node[1]].analysis = out.node.analysis]
          /\ pc' = IF out.raised THEN "raised" ELSE "reviewed"
    /\ UNCHANGED <<cfg, data_preview, draw, parent_node, mode, tries,
                   completion_text, plan_code, exec_result>>

\* step(), lines 333-336: parse_exec_result with the review query's response
ParseExecResult ==
    /\ pc = "executed"
    /\ \E resp \in Responses :
          LET out == parse_exec_result(result_node[1], exec_result[1], resp) IN
          /\ response' = Some(resp)
          /\ result_node' = Some(out.node)
          /\ pc' = IF out.raised THEN "raised" ELSE "reviewed"
    /\ UNCHANGED <<cfg, journal, data_preview, draw, parent_node, mode, tries,
                   completion_text, plan_code, exec_result>>

\* a buggy node not appended
JournalAppend_drop_buggy ==
    /\ pc = "reviewed"
    /\ journal' = IF result_node[1].is_buggy = Some(TRUE)
                  THEN journal ELSE journal_append(journal, result_node[1])
    /\ pc' = "idle"
    /\ draw' = None
    /\ parent_node' = None
    /\ mode' = None
    /\ completion_text' = None
    /\ plan_code' = None
    /\ result_node' = None
    /\ exec_result' = None
    /\ response' = None
    /\ UNCHANGED <<cfg, data_preview, tries>>

\* step(), line 337: self.journal.append(result_node), and the return of step()
JournalAppend ==
    /\ pc = "reviewed"
    /\ journal' = journal_append(journal, result_node[1])
    /\ pc' = "idle"
    /\ draw' = None
    /\ parent_node' = None
    /\ mode' = None
    /\ completion_text' = None
    /\ plan_code' = None
    /\ result_node' = None
    /\ exec_result' = None
    /\ response' = None
    /\ UNCHANGED <<cfg, data_preview, tries>>

Next ==
    \/ SearchPolicy /\ UNCHANGED <<service_vars, process_vars, backend_vars>>
    \/ PlanAndCodeQuery /\ UNCHANGED <<service_vars, process_vars, backend_vars>>
    \/ ExecCallback /\ UNCHANGED <<service_vars, process_vars, backend_vars>>
    \/ ParseExecResult /\ UNCHANGED <<service_vars, process_vars, backend_vars>>
    \/ JournalAppend /\ UNCHANGED <<service_vars, process_vars, backend_vars>>

Spec == Init /\ [][Next]_vars

\* ------------------------------------------------------------------------
\* An Agent constructed with a corrupt search configuration: __init__ takes
\* cfg as it is (lines 69-96), here with a negative debug_prob
\* ------------------------------------------------------------------------
CorruptDebugProbs == {-50}

CorruptConfigs ==
    [num_drafts : 1..MaxDrafts, debug_prob : CorruptDebugProbs,
     max_debug_depth : 0..MaxDepthCfg]

InitCorrupt ==
    /\ cfg \in CorruptConfigs
    /\ InitAgent
    /\ NoService
    /\ NoProcess
    /\ NoBackend

SpecCorrupt == InitCorrupt /\ [][Next]_vars

\* ------------------------------------------------------------------------
\* search_policy evaluated a second time on the journal it has just been
\* evaluated on, with the same values from the random source: the same
\* random.random() value where line 113 is reached, the same random.choice
\* value where line 122 is reached
\* ------------------------------------------------------------------------
SearchPolicyAgain ==
    /\ pc = "selected"
    /\ tries = 0
    /\ \E r \in Draws, pick \in choices(journal, cfg) :
          /\ draw # None => r = draw[1]
          /\ (/\ ~ not_enough_drafts(journal, cfg)
              /\ debug_by_chance(r, cfg)
              /\ debuggable_nodes(journal, cfg) # {}) => Some(pick) = parent_node
          /\ parent_node' = search_policy(journal, cfg, r, pick)
    /\ pc' = "reselected"
    /\ UNCHANGED <<cfg, journal, data_preview, draw, mode, tries, completion_text,
                   plan_code, result_node, exec_result, response>>

NextTwice ==
    \/ Next
    \/ SearchPolicyAgain /\ UNCHANGED <<service_vars, process_vars, backend_vars>>

SpecTwice == Init /\ [][NextTwice]_vars

\* ------------------------------------------------------------------------
\* The step with the nodes carrying their payload: Node(plan=plan, code=code,
\* ...) of lines 233, 264-268 and 300 keeps the plan and code that
\* plan_and_code_query returned. One search configuration.
\* ------------------------------------------------------------------------
PayloadConfigs == {c \in Configs : c.num_drafts = 1 /\ c.debug_prob = 50 /\ c.max_debug_depth = 1}

generate_with_payload(m, parent, pcode) ==
    generate(m, parent) @@ [plan |-> pcode.plan, code |-> pcode.code]

PlanAndCodeQueryPayload ==
    /\ pc = "selected"
    /\ \E completion \in Completions :
          LET ret == plan_and_code_query(tries + 1, completion) IN
          /\ mode' = Some(step_mode(journal, parent_node))
          /\ IF ret = None
             THEN /\ tries' = tries + 1
                  /\ completion_text' = Some(completion)
                  /\ UNCHANGED <<pc, plan_code, result_node>>
             ELSE /\ tries' = 0
                  /\ completion_text' = Some(completion)
                  /\ plan_code' = ret
                  /\ result_node' = Some(generate_with_payload(
                                            step_mode(journal, parent_node), parent_node, ret[1]))
                  /\ pc' = "generated"
    /\ UNCHANGED <<cfg, journal, data_preview, draw, parent_node, exec_result, response>>

InitPayload == Init /\ cfg \in PayloadConfigs

NextPayload ==
    \/ SearchPolicy /\ UNCHANGED <<service_vars, process_vars, backend_vars>>
    \/ PlanAndCodeQueryPayload /\ UNCHANGED <<service_vars, process_vars, backend_vars>>
    \/ ExecCallback /\ UNCHANGED <<service_vars, process_vars, backend_vars>>
    \/ ParseExecResult /\ UNCHANGED <<service_vars, process_vars, backend_vars>>
    \/ JournalAppend /\ UNCHANGED <<service_vars, process_vars, backend_vars>>

SpecPayload == InitPayload /\ [][NextPayload]_vars

\* ------------------------------------------------------------------------
\* backend/services/experiment_service.py: ExperimentService
\* ------------------------------------------------------------------------
\* create_experiment, lines 31-42; num_steps is validated to be >= 1 by
\* ExperimentCreate
NewExperiment(n) ==
    [status |-> "pending", num_steps |-> n, current_step |-> 0, progress |-> 0,
     best_metric_value |-> None, best_solution_code |-> None, error_message |-> None,
     journal_data |-> None]

\* update_experiment, lines 81-83: the fields set in update_data are assigned
update_experiment(e, update_data) == update_data @@ e

\* line 208: progress = (step + 1) / experiment.num_steps, in percent
progress_after(step, num_steps) == ((step + 1) * 100) \div num_steps

\* the first node never taken when no node is good
best_node_no_fallback(j) == get_best_node(j, TRUE)

\* lines 262-269: the best good node, else the first node
best_node(j) ==
    LET good == get_best_node(j, TRUE) IN
    IF good = None /\ j # <<>> THEN Some(1) ELSE good

\* float(node.metric.value) if the metric has a value, lines 248, 272, 280
metric_value(node) ==
    IF node.metric = None \/ is_worst(node.metric[1]) THEN None ELSE node.metric[1].value

\* lines 271-272
best_solution_code(j) == IF best_node(j) = None THEN None ELSE Some(j[best_node(j)[1]].code)
best_metric_value(j) == IF best_node(j) = None THEN None ELSE metric_value(j[best_node(j)[1]])

\* lines 277-285
journal_data(j) ==
    [n \in nodes(j) |-> [step |-> j[n].step, code |-> j[n].code,
                         metric |-> metric_value(j[n]), is_buggy |-> j[n].is_buggy]]

\* the background tasks created for the experiment
Tasks == 1..MaxRequests

NoTask == [pc |-> "none", step |-> 0, error |-> None]

\* lines 160-162: get_experiment; the experiment exists
RunGetExperiment(t) ==
    /\ run[t].pc = "created"
    /\ run' = [run EXCEPT ![t].pc = "found"]
    /\ UNCHANGED experiment

\* lines 167-186: status RUNNING and the initial status message
RunSetRunning(t) ==
    /\ run[t].pc = "found"
    /\ experiment' = update_experiment(experiment, [status |-> "running"])
    /\ run' = [run EXCEPT ![t].pc = "running"]

\* lines 189-199: AIDEExperiment(...) set up, the loop entered
RunInitialize(t) ==
    /\ run[t].pc = "running"
    /\ run' = [run EXCEPT ![t].pc = "loop", ![t].step = 0]
    /\ UNCHANGED experiment

\* lines 200-204: the next iteration calls agent.step
RunBeginStep(t) ==
    /\ run[t].pc = "loop"
    /\ run[t].step < experiment.num_steps
    /\ run' = [run EXCEPT ![t].pc = "stepping"]
    /\ UNCHANGED experiment

\* line 204: agent.step has returned
RunEndStep(t) ==
    /\ run[t].pc = "stepping"
    /\ run' = [run EXCEPT ![t].pc = "stepped"]
    /\ UNCHANGED experiment

\* lines 206-250: save_run, current_step and progress stored, progress message
RunUpdateProgress(t) ==
    /\ run[t].pc = "stepped"
    /\ experiment' = update_experiment(experiment,
                        [current_step |-> run[t].step + 1,
                         progress |-> progress_after(run[t].step, experiment.num_steps)])
    /\ run' = [run EXCEPT ![t].pc = "loop", ![t].step = run[t].step + 1]

\* the setup, agent.step, save_run, create_node or the cleanup raises: control
\* goes to the handler of line 313
RunRaises(t) ==
    /\ run[t].pc \in {"running", "stepping", "stepped", "loop"}
    /\ run' = [run EXCEPT ![t].pc = "except", ![t].error = Some("error")]
    /\ UNCHANGED experiment

\* the handler leaving the status as it is
RunExcept_keeps_status(t) ==
    /\ run[t].pc = "except"
    /\ experiment' = update_experiment(experiment, [error_message |-> run[t].error])
    /\ run' = [run EXCEPT ![t].pc = "returned"]

\* lines 313-340: status FAILED with the error message, error message sent
RunExcept(t) ==
    /\ run[t].pc = "except"
    /\ experiment' = update_experiment(experiment,
                        [status |-> "failed", error_message |-> run[t].error])
    /\ run' = [run EXCEPT ![t].pc = "returned"]

\* lines 252-311 after the last iteration: best solution, status COMPLETED
\* with progress 1.0, completion message
RunComplete(t, j) ==
    /\ run[t].pc = "loop"
    /\ run[t].step >= experiment.num_steps
    /\ experiment' = update_experiment(experiment,
                        [status |-> "completed",
                         best_solution_code |-> best_solution_code(j),
                         best_metric_value |-> best_metric_value(j),
                         journal_data |-> journal_data(j),
                         progress |-> 100])
    /\ run' = [run EXCEPT ![t].pc = "returned"]

\* ------------------------------------------------------------------------
\* One background run of an experiment, its agent steps in full; the task
\* has been created by an accepted POST /run
\* ------------------------------------------------------------------------
InitRun ==
    /\ cfg \in PayloadConfigs
    /\ InitAgent
    /\ experiment \in {NewExperiment(n) : n \in 1..MaxSteps}
    /\ run = [t \in Tasks |-> IF t = 1 THEN [NoTask EXCEPT !.pc = "created"] ELSE NoTask]
    /\ api = None
    /\ NoProcess
    /\ NoBackend

NextRun ==
    \/ RunGetExperiment(1) /\ UNCHANGED <<agent_vars, api, process_vars, backend_vars>>
    \/ RunSetRunning(1) /\ UNCHANGED <<agent_vars, api, process_vars, backend_vars>>
    \/ RunInitialize(1) /\ UNCHANGED <<agent_vars, api, process_vars, backend_vars>>
    \/ RunBeginStep(1) /\ SearchPolicy /\ UNCHANGED <<api, process_vars, backend_vars>>
    \/ PlanAndCodeQueryPayload /\ UNCHANGED <<service_vars, process_vars, backend_vars>>
    \/ ExecCallback /\ UNCHANGED <<service_vars, process_vars, backend_vars>>
    \/ ParseExecResult /\ UNCHANGED <<service_vars, process_vars, backend_vars>>
    \/ RunEndStep(1) /\ JournalAppend /\ UNCHANGED <<api, process_vars, backend_vars>>
    \/ RunUpdateProgress(1) /\ UNCHANGED <<agent_vars, api, process_vars, backend_vars>>
    \/ RunRaises(1) /\ UNCHANGED <<agent_vars, api, process_vars, backend_vars>>
    \/ RunExcept(1) /\ UNCHANGED <<agent_vars, api, process_vars, backend_vars>>
    \/ RunComplete(1, journal) /\ UNCHANGED <<agent_vars, api, process_vars, backend_vars>>

SpecRun == InitRun /\ [][NextRun]_vars

\* ------------------------------------------------------------------------
\* backend/api/experiments.py: POST /{experiment_id}/run, lines 130-181.
\* Request r creates the background task r. The handler and the tasks run
\* on one event loop and interleave at their awaits.
\* ------------------------------------------------------------------------
Requests == 1..MaxRequests

NewRequest == [pc |-> "new", status |-> None, code |-> None]

\* line 137: experiment = await service.get_experiment(experiment_id)
ApiGetExperiment(r) ==
    /\ api[r].pc = "new"
    /\ api' = [api EXCEPT ![r].pc = "read", ![r].status = Some(experiment.status)]
    /\ UNCHANGED <<experiment, run>>

\* lines 142-143: HTTP 400 for an experiment seen running
ApiReject(r) ==
    /\ api[r].pc = "read"
    /\ api[r].status = Some("running")
    /\ api' = [api EXCEPT ![r].pc = "responded", ![r].code = Some(400)]
    /\ UNCHANGED <<experiment, run>>

\* lines 145-181: asyncio.create_task(run_background_task()) and the response
ApiCreateTask(r) ==
    /\ api[r].pc = "read"
    /\ api[r].status # Some("running")
    /\ run' = [run EXCEPT ![r].pc = "created"]
    /\ api' = [api EXCEPT ![r].pc = "responded", ![r].code = Some(200)]
    /\ UNCHANGED experiment

\* the journal of a task whose agent steps are not followed one by one: a
\* buggy or a good draft per step
DraftOutcome(buggy, n) ==
    [Node(None) @@ [plan |-> "plan", code |-> "code"] EXCEPT
        !.step = Some(n - 1),
        !.is_buggy = Some(buggy),
        !.metric = Some(IF buggy THEN WorstMetricValue ELSE MetricValue(Some(1), FALSE))]

JournalsOf(num_steps) ==
    {[n \in 1..num_steps |-> DraftOutcome(b[n], n)] : b \in [1..num_steps -> BOOLEAN]}

InitRace ==
    /\ cfg \in PayloadConfigs
    /\ InitAgent
    /\ experiment \in {NewExperiment(n) : n \in 1..MaxSteps}
    /\ run = [t \in Tasks |-> NoTask]
    /\ api = [r \in Requests |-> NewRequest]
    /\ NoProcess
    /\ NoBackend

NextRace ==
    \/ \E r \in Requests : ApiGetExperiment(r) /\ UNCHANGED <<agent_vars, process_vars, backend_vars>>
    \/ \E r \in Requests : ApiReject(r) /\ UNCHANGED <<agent_vars, process_vars, backend_vars>>
    \/ \E r \in Requests : ApiCreateTask(r) /\ UNCHANGED <<agent_vars, process_vars, backend_vars>>
    \/ \E t \in Tasks : RunGetExperiment(t) /\ UNCHANGED <<agent_vars, api, process_vars, backend_vars>>
    \/ \E t \in Tasks : RunSetRunning(t) /\ UNCHANGED <<agent_vars, api, process_vars, backend_vars>>
    \/ \E t \in Tasks : RunInitialize(t) /\ UNCHANGED <<agent_vars, api, process_vars, backend_vars>>
    \/ \E t \in Tasks : RunBeginStep(t) /\ UNCHANGED <<agent_vars, api, process_vars, backend_vars>>
    \/ \E t \in Tasks : RunEndStep(t) /\ UNCHANGED <<agent_vars, api, process_vars, backend_vars>>
    \/ \E t \in Tasks : RunUpdateProgress(t) /\ UNCHANGED <<agent_vars, api, process_vars, backend_vars>>
    \/ \E t \in Tasks : RunRaises(t) /\ UNCHANGED <<agent_vars, api, process_vars, backend_vars>>
    \/ \E t \in Tasks : RunExcept(t) /\ UNCHANGED <<agent_vars, api, process_vars, backend_vars>>
    \/ \E t \in Tasks, j \in JournalsOf(experiment.num_steps) :
          RunComplete(t, j) /\ UNCHANGED <<agent_vars, api, process_vars, backend_vars>>

SpecRace == InitRace /\ [][NextRace]_vars

\* ------------------------------------------------------------------------
\* The stored rows of a run and the feature analysis report:
\* services/experiment_service.py lines 240-250, and
\* services/feature_analysis_service.py generate_analysis_report.
\* A client posts /run again only when no run is in flight; requests for the
\* analysis report arrive at any time.
\* ------------------------------------------------------------------------
MaxAnalyses == 2

Analyses == (MaxRequests + 1)..(MaxRequests + MaxAnalyses)

\* create_node, lines 121-131, with the arguments of lines 241-250
row_of(node) ==
    [step |-> node.step[1], plan |-> node.plan, code |-> node.code,
     metric_value |-> metric_value(node), is_buggy |-> node.is_buggy = Some(TRUE)]

\* lines 240-250: a row created for every node of the journal
save_nodes(rs, j) == rs \o [n \in nodes(j) |-> row_of(j[n])]

\* reviews of the steps of a run: no dict, or a complete review
RunResponses ==
    {NotDict} \cup
    {resp \in DictResponses : /\ resp.is_bug # None
                               /\ resp.lower_is_better # None
                               /\ resp.metric # None
                               /\ resp.metric[1].type = "float"}

\* line 205: aide_exp.agent.step(...), one whole step() on the run's journal
AgentStep(reviews) ==
    /\ \E r \in Draws, pick \in choices(journal, cfg),
          res \in ExecResults, resp \in reviews :
          LET parent == search_policy(journal, cfg, r, pick)
              node == generate_with_payload(step_mode(journal, parent), parent,
                                            [plan |-> "plan", code |-> "code"])
              out == parse_exec_result(node, res, resp)
          IN journal' = journal_append(journal, out.node)
    /\ UNCHANGED <<cfg, data_preview, pc, draw, parent_node, mode, tries, completion_text,
                   plan_code, result_node, exec_result, response>>

\* lines 191-195: a new AIDEExperiment with an empty journal
NewJournal ==
    /\ journal' = <<>>
    /\ UNCHANGED <<cfg, data_preview, pc, draw, parent_node, mode, tries, completion_text,
                   plan_code, result_node, exec_result, response>>

\* lines 207-250: progress stored and the journal's nodes saved as rows
RunSaveStep(t) ==
    /\ RunUpdateProgress(t)
    /\ rows' = save_nodes(rows, journal)

\* isinstance(experiment.journal_data, dict): the stored value is a list
journal_data_is_dict(d) == \E k \in DOMAIN d : k \notin Nat

\* lines 196-199 of feature_analysis_service.py
lower_is_better(e) ==
    IF e.journal_data # None /\ e.journal_data # <<>> /\ journal_data_is_dict(e.journal_data)
    THEN e.journal_data.lower_is_better
    ELSE FALSE

\* line 182: good_nodes, as indices of the rows ordered by step
good_rows(rs) == {n \in 1..Len(rs) : ~rs[n].is_buggy /\ rs[n].metric_value # None}

\* lines 201-204: min / max by metric_value, the first of equal ones
best_row(rs, lower) ==
    CHOOSE n \in good_rows(rs) :
        \A m \in good_rows(rs) :
            LET vn == rs[n].metric_value[1]
                vm == rs[m].metric_value[1]
            IN IF lower THEN vn < vm \/ (vn = vm /\ n <= m)
                        ELSE vn > vm \/ (vn = vm /\ n <= m)

\* generate_analysis_report, lines 155-349: the stored report afterwards and
\* whether the call raised
generate_analysis_report(e, rs, rep) ==
    IF e.status # "completed"
    THEN [report |-> None, raised |-> TRUE]
    ELSE IF good_rows(rs) = {}
    THEN [report |-> Some([best_node |-> None, error_message |-> Some("no valid nodes")]),
          raised |-> FALSE]
    ELSE [report |-> Some([best_node |-> Some(rs[best_row(rs, lower_is_better(e))]),
                           error_message |-> None]),
          raised |-> FALSE]

\* api/experiments.py lines 225-226: get_experiment
AnalysisGetExperiment(a) ==
    /\ api[a].pc = "new"
    /\ api' = [api EXCEPT ![a].pc = "read", ![a].status = Some(experiment.status)]
    /\ UNCHANGED <<experiment, run, rows, report>>

\* lines 231-235: HTTP 400 for an experiment not seen completed
AnalysisReject(a) ==
    /\ api[a].pc = "read"
    /\ api[a].status # Some("completed")
    /\ api' = [api EXCEPT ![a].pc = "responded", ![a].code = Some(400)]
    /\ UNCHANGED <<experiment, run, rows, report>>

\* lines 238-244: the report generated, or HTTP 500 when the service raises
AnalysisGenerate(a) ==
    /\ api[a].pc = "read"
    /\ api[a].status = Some("completed")
    /\ LET got == generate_analysis_report(experiment, rows, report) IN
          /\ report' = got.report
          /\ api' = [api EXCEPT ![a].pc = "responded",
                                ![a].code = Some(IF got.raised THEN 500 ELSE 200)]
    /\ UNCHANGED <<experiment, run, rows>>

\* the requests of one kind are made one after the other
InTurn(r, kind) == \A q \in kind : q < r => api[q].pc = "responded"

\* one run of a new experiment, and requests for its analysis report
InitStore ==
    /\ cfg \in PayloadConfigs
    /\ InitAgent
    /\ experiment \in {NewExperiment(n) : n \in 1..MaxSteps}
    /\ run = [t \in Tasks |-> IF t = 1 THEN [NoTask EXCEPT !.pc = "created"] ELSE NoTask]
    /\ api = [a \in Analyses |-> NewRequest]
    /\ NoProcess
    /\ NoBackend

NextStore ==
    \/ RunGetExperiment(1) /\ UNCHANGED <<agent_vars, api, process_vars, backend_vars>>
    \/ RunSetRunning(1) /\ UNCHANGED <<agent_vars, api, process_vars, backend_vars>>
    \/ RunInitialize(1) /\ NewJournal /\ UNCHANGED <<api, process_vars, backend_vars>>
    \/ RunBeginStep(1) /\ UNCHANGED <<agent_vars, api, process_vars, backend_vars>>
    \/ RunEndStep(1) /\ AgentStep(RunResponses) /\ UNCHANGED <<api, process_vars, backend_vars>>
    \/ RunSaveStep(1)
          /\ UNCHANGED <<agent_vars, api, process_vars, report, active_connections, sockets, sent>>
    \/ RunRaises(1) /\ UNCHANGED <<agent_vars, api, process_vars, backend_vars>>
    \/ RunExcept(1) /\ UNCHANGED <<agent_vars, api, process_vars, backend_vars>>
    \/ RunComplete(1, journal) /\ UNCHANGED <<agent_vars, api, process_vars, backend_vars>>
    \/ \E a \in Analyses : InTurn(a, Analyses) /\ AnalysisGetExperiment(a)
          /\ UNCHANGED <<agent_vars, process_vars, active_connections, sockets, sent>>
    \/ \E a \in Analyses : AnalysisReject(a)
          /\ UNCHANGED <<agent_vars, process_vars, active_connections, sockets, sent>>
    \/ \E a \in Analyses : AnalysisGenerate(a)
          /\ UNCHANGED <<agent_vars, process_vars, active_connections, sockets, sent>>

SpecStore == InitStore /\ [][NextStore]_vars

\* ------------------------------------------------------------------------
\* An experiment run again: POST /run is refused only for a running
\* experiment (api/experiments.py lines 142-143). The client posts again
\* only when no run is in flight.
\* ------------------------------------------------------------------------
NoRunInFlight == \A t \in Tasks : run[t].pc \in {"none", "returned"}

\* reviews of the steps of these runs
RerunResponses ==
    {NotDict} \cup
    {resp \in DictResponses : /\ resp.is_bug = Some(FALSE)
                               /\ resp.lower_is_better = Some(FALSE)
                               /\ resp.metric = Some([type |-> "float", val |-> 1])}

InitRerun ==
    /\ cfg \in PayloadConfigs
    /\ InitAgent
    /\ experiment \in {NewExperiment(n) : n \in 1..MaxSteps}
    /\ run = [t \in Tasks |-> NoTask]
    /\ api = [r \in Requests \cup Analyses |-> NewRequest]
    /\ NoProcess
    /\ NoBackend

NextRerun ==
    \/ \E r \in Requests : NoRunInFlight /\ InTurn(r, Requests) /\ ApiGetExperiment(r)
          /\ UNCHANGED <<agent_vars, process_vars, backend_vars>>
    \/ \E r \in Requests : ApiCreateTask(r) /\ UNCHANGED <<agent_vars, process_vars, backend_vars>>
    \/ \E t \in Tasks : RunGetExperiment(t) /\ UNCHANGED <<agent_vars, api, process_vars, backend_vars>>
    \/ \E t \in Tasks : RunSetRunning(t) /\ UNCHANGED <<agent_vars, api, process_vars, backend_vars>>
    \/ \E t \in Tasks : RunInitialize(t) /\ NewJournal /\ UNCHANGED <<api, process_vars, backend_vars>>
    \/ \E t \in Tasks : RunBeginStep(t) /\ UNCHANGED <<agent_vars, api, process_vars, backend_vars>>
    \/ \E t \in Tasks : RunEndStep(t) /\ AgentStep(RerunResponses)
          /\ UNCHANGED <<api, process_vars, backend_vars>>
    \/ \E t \in Tasks : RunSaveStep(t)
          /\ UNCHANGED <<agent_vars, api, process_vars, report, active_connections, sockets, sent>>
    \/ \E t \in Tasks : RunRaises(t) /\ UNCHANGED <<agent_vars, api, process_vars, backend_vars>>
    \/ \E t \in Tasks : RunExcept(t) /\ UNCHANGED <<agent_vars, api, process_vars, backend_vars>>
    \/ \E t \in Tasks : RunComplete(t, journal)
          /\ UNCHANGED <<agent_vars, api, process_vars, backend_vars>>
    \/ \E a \in Analyses : InTurn(a, Analyses) /\ AnalysisGetExperiment(a)
          /\ UNCHANGED <<agent_vars, process_vars, active_connections, sockets, sent>>
    \/ \E a \in Analyses : AnalysisReject(a)
          /\ UNCHANGED <<agent_vars, process_vars, active_connections, sockets, sent>>
    \/ \E a \in Analyses : AnalysisGenerate(a)
          /\ UNCHANGED <<agent_vars, process_vars, active_connections, sockets, sent>>

SpecRerun == InitRerun /\ [][NextRerun]_vars

\* ------------------------------------------------------------------------
\* The websocket side: api/experiments.py, active_connections (line 24),
\* websocket_endpoint (lines 247-292) and the websocket_callback that a
\* background run is given (lines 149-160). All clients connect for the one
\* experiment. A client's handler is "new" before accept, "registered" once
\* it has stored its socket, "open" in the receive loop, "lost" when the
\* client has gone away and the handler has not noticed yet, "gone" at its
\* end.
\* ------------------------------------------------------------------------
MaxClients == 2

Clients == 1..MaxClients

Live == {"registered", "open"}

\* lines 256-260: accept, then active_connections[experiment_id] = websocket
WsAccept(c) ==
    /\ sockets[c] = "new"
    /\ sockets' = [sockets EXCEPT ![c] = "registered"]
    /\ active_connections' = Some(c)

\* lines 263-271: the confirmation is sent, the receive loop entered
WsConfirm(c) ==
    /\ sockets[c] = "registered"
    /\ sockets' = [sockets EXCEPT ![c] = "open"]
    /\ UNCHANGED active_connections

\* the client goes away; its handler is waiting in an await
WsClientLeaves(c) ==
    /\ sockets[c] \in Live
    /\ sockets' = [sockets EXCEPT ![c] = "lost"]
    /\ UNCHANGED active_connections

\* lines 272-277 and 283-292: the failed send or receive ends the handler,
\* which deletes active_connections[experiment_id] if the key is there
WsDisconnect(c) ==
    /\ sockets[c] = "lost"
    /\ sockets' = [sockets EXCEPT ![c] = "gone"]
    /\ active_connections' = None

\* a send that raises is not caught
websocket_callback_no_catch(conn, send_ok) ==
    IF conn = None THEN [delivered |-> FALSE, raised |-> FALSE]
    ELSE IF send_ok THEN [delivered |-> TRUE, raised |-> FALSE]
    ELSE [delivered |-> FALSE, raised |-> TRUE]

\* lines 149-160: send_json to the registered socket inside try / except
websocket_callback(conn, send_ok) ==
    IF conn = None THEN [delivered |-> FALSE, raised |-> FALSE]
    ELSE IF send_ok THEN [delivered |-> TRUE, raised |-> FALSE]
    ELSE [delivered |-> FALSE, raised |-> FALSE]

\* send_json succeeds or raises on a live socket and raises on a lost one
SendOutcomes ==
    IF active_connections # None /\ sockets[active_connections[1]] \in Live
    THEN BOOLEAN ELSE {FALSE}

\* the task after 'await websocket_callback(...)': an exception of the
\* callback goes to the handler of line 315
after_callback(task, cb, next_pc) ==
    IF cb.raised THEN [task EXCEPT !.pc = "except", !.error = Some("send")]
    ELSE [task EXCEPT !.pc = next_pc]

delivered_to(log, cb, type) == IF cb.delivered THEN Append(log, type) ELSE log

\* experiment_service.py lines 168-188: status RUNNING, then the callback
RunSetRunningNotify(t) ==
    /\ run[t].pc = "found"
    /\ experiment' = update_experiment(experiment, [status |-> "running"])
    /\ \E send_ok \in SendOutcomes :
          LET cb == websocket_callback(active_connections, send_ok) IN
          /\ run' = [run EXCEPT ![t] = after_callback(run[t], cb, "running")]
          /\ sent' = delivered_to(sent, cb, "status_update")
    /\ UNCHANGED rows

\* lines 207-250: progress stored, the callback, then the nodes saved
RunSaveStepNotify(t) ==
    /\ run[t].pc = "stepped"
    /\ experiment' = update_experiment(experiment,
                        [current_step |-> run[t].step + 1,
                         progress |-> progress_after(run[t].step, experiment.num_steps)])
    /\ \E send_ok \in SendOutcomes :
          LET cb == websocket_callback(active_connections, send_ok) IN
          /\ run' = [run EXCEPT ![t] = after_callback([run[t] EXCEPT !.step = @ + 1], cb, "loop")]
          /\ sent' = delivered_to(sent, cb, "status_update")
          /\ rows' = IF cb.raised THEN rows ELSE save_nodes(rows, journal)

\* lines 252-313: the results stored with status COMPLETED, then the callback
RunCompleteNotify(t) ==
    /\ run[t].pc = "loop"
    /\ run[t].step >= experiment.num_steps
    /\ experiment' = update_experiment(experiment,
                        [status |-> "completed",
                         best_solution_code |-> best_solution_code(journal),
                         best_metric_value |-> best_metric_value(journal),
                         journal_data |-> journal_data(journal),
                         progress |-> 100])
    /\ \E send_ok \in SendOutcomes :
          LET cb == websocket_callback(active_connections, send_ok) IN
          /\ run' = [run EXCEPT ![t] = after_callback(run[t], cb, "returned")]
          /\ sent' = delivered_to(sent, cb, "complete")
    /\ UNCHANGED rows

\* lines 315-340: status FAILED, then the callback; an exception of the
\* callback leaves run_experiment_async
RunExceptNotify(t) ==
    /\ run[t].pc = "except"
    /\ experiment' = update_experiment(experiment,
                        [status |-> "failed", error_message |-> run[t].error])
    /\ \E send_ok \in SendOutcomes :
          LET cb == websocket_callback(active_connections, send_ok) IN
          /\ run' = [run EXCEPT ![t].pc = "returned"]
          /\ sent' = delivered_to(sent, cb, "error")
    /\ UNCHANGED rows

InitWs ==
    /\ cfg \in PayloadConfigs
    /\ InitAgent
    /\ experiment \in {NewExperiment(n) : n \in 1..MaxSteps}
    /\ run = [t \in Tasks |-> IF t = 1 THEN [NoTask EXCEPT !.pc = "created"] ELSE NoTask]
    /\ api = None
    /\ NoProcess
    /\ rows = <<>>
    /\ report = None
    /\ active_connections = None
    /\ sockets = [c \in Clients |-> "new"]
    /\ sent = <<>>

NextWs ==
    \/ \E c \in Clients : WsAccept(c)
          /\ UNCHANGED <<agent_vars, service_vars, process_vars, rows, report, sent>>
    \/ \E c \in Clients : WsConfirm(c)
          /\ UNCHANGED <<agent_vars, service_vars, process_vars, rows, report, sent>>
    \/ \E c \in Clients : WsClientLeaves(c)
          /\ UNCHANGED <<agent_vars, service_vars, process_vars, rows, report, sent>>
    \/ \E c \in Clients : WsDisconnect(c)
          /\ UNCHANGED <<agent_vars, service_vars, process_vars, rows, report, sent>>
    \/ RunGetExperiment(1) /\ UNCHANGED <<agent_vars, api, process_vars, backend_vars>>
    \/ RunSetRunningNotify(1)
          /\ UNCHANGED <<agent_vars, api, process_vars, report, active_connections, sockets>>
    \/ RunInitialize(1) /\ NewJournal /\ UNCHANGED <<api, process_vars, backend_vars>>
    \/ RunBeginStep(1) /\ UNCHANGED <<agent_vars, api, process_vars, backend_vars>>
    \/ RunEndStep(1) /\ AgentStep(RerunResponses) /\ UNCHANGED <<api, process_vars, backend_vars>>
    \/ RunSaveStepNotify(1)
          /\ UNCHANGED <<agent_vars, api, process_vars, report, active_connections, sockets>>
    \/ RunRaises(1) /\ UNCHANGED <<agent_vars, api, process_vars, backend_vars>>
    \/ RunExceptNotify(1)
          /\ UNCHANGED <<agent_vars, api, process_vars, report, active_connections, sockets>>
    \/ RunCompleteNotify(1)
          /\ UNCHANGED <<agent_vars, api, process_vars, report, active_connections, sockets>>

SpecWs == InitWs /\ [][NextWs]_vars

\* ------------------------------------------------------------------------
\* Two independent experiments in one process: the agent followed step by
\* step, and a second Journal + Agent pair (other) whose steps run between
\* the stages of the first. What the process shares is the global prompt
\* loader of prompts/loader.py. The values of the random source are inputs
\* of each step.
\* ------------------------------------------------------------------------
Versions == {"default", "v2"}

\* steps of the second agent
MaxOtherSteps == 1

\* reviews of the second agent's steps: no dict, or a complete review
OtherResponses ==
    {NotDict} \cup
    {resp \in DictResponses : /\ resp.is_bug # None
                               /\ resp.lower_is_better = Some(FALSE)
                               /\ resp.metric # None
                               /\ resp.metric[1].type = "float"}

\* the loader of another version made by changing the existing object
get_prompt_loader_in_place(ls, g, version) ==
    IF g = None
    THEN [loaders |-> Append(ls, [version |-> version]),
          global |-> Some(Len(ls) + 1), result |-> Len(ls) + 1]
    ELSE [loaders |-> [ls EXCEPT ![g[1]].version = version], global |-> g, result |-> g[1]]

\* loader.py lines 339-362, with force_reload = False: the objects, the
\* global and the returned object after the call
get_prompt_loader(ls, g, version) ==
    IF g = None \/ ls[g[1]].version # version
    THEN [loaders |-> Append(ls, [version |-> version]),
          global |-> Some(Len(ls) + 1), result |-> Len(ls) + 1]
    ELSE [loaders |-> ls, global |-> g, result |-> g[1]]

\* Agent.__init__, lines 92-96: self.prompts = get_prompt_loader(version=prompt_version)
AgentInit ==
    /\ prompts = None
    /\ \E version \in Versions :
          LET got == get_prompt_loader(loaders, prompt_loader, version) IN
          /\ loaders' = got.loaders
          /\ prompt_loader' = got.global
          /\ prompts' = Some(got.result)
    /\ UNCHANGED other

\* the second pair constructed: its own Journal, Agent.__init__ lines 86-96
OtherInit ==
    /\ other = None
    /\ \E version \in Versions, c \in PayloadConfigs :
          LET got == get_prompt_loader(loaders, prompt_loader, version) IN
          /\ loaders' = got.loaders
          /\ prompt_loader' = got.global
          /\ other' = [cfg |-> c, journal |-> <<>>, prompts |-> got.result]
    /\ UNCHANGED prompts

\* one step() of the second agent on its own journal, lines 306-337
OtherStep ==
    /\ other # None
    /\ Len(other.journal) < MaxOtherSteps
    /\ \E r \in Draws, pick \in choices(other.journal, other.cfg),
          res \in ExecResults, resp \in OtherResponses :
          LET parent == search_policy(other.journal, other.cfg, r, pick)
              node == generate(step_mode(other.journal, parent), parent)
              out == parse_exec_result(node, res, resp)
          IN other' = [other EXCEPT !.journal = journal_append(other.journal, out.node)]
    /\ UNCHANGED <<prompt_loader, loaders, prompts>>

InitTwo ==
    /\ cfg \in PayloadConfigs
    /\ InitAgent
    /\ NoService
    /\ NoProcess
    /\ NoBackend

NextTwo ==
    \/ AgentInit /\ UNCHANGED <<agent_vars, service_vars, backend_vars>>
    \/ OtherInit /\ UNCHANGED <<agent_vars, service_vars, backend_vars>>
    \/ OtherStep /\ UNCHANGED <<agent_vars, service_vars, backend_vars>>
    \/ /\ prompts # None
       /\ Len(journal) < MaxSteps
       /\ SearchPolicy
       /\ UNCHANGED <<service_vars, process_vars, backend_vars>>
    \/ PlanAndCodeQuery /\ UNCHANGED <<service_vars, process_vars, backend_vars>>
    \/ ExecCallback /\ UNCHANGED <<service_vars, process_vars, backend_vars>>
    \/ ParseExecResult /\ UNCHANGED <<service_vars, process_vars, backend_vars>>
    \/ JournalAppend /\ UNCHANGED <<service_vars, process_vars, backend_vars>>

SpecTwo == InitTwo /\ [][NextTwo]_vars

\* ------------------------------------------------------------------------
\* Vocabulary of the claims
\* ------------------------------------------------------------------------
\* between the selection and the append of one step() the journal is the one
\* search_policy saw
InStep == pc \in {"selected", "generated", "executed", "reviewed"}

QuotaMet == Cardinality(draft_nodes(journal)) >= cfg.num_drafts

\* buggy leaves within the debug depth bound
Debuggable ==
    {n \in nodes(journal) :
        /\ journal[n].is_buggy = Some(TRUE)
        /\ \A m \in nodes(journal) : journal[m].parent # Some(n)
        /\ debug_depth(journal, n) <= cfg.max_debug_depth}

\* the debug branch of the policy was entered and found a node
DebugFired == draw # None /\ draw[1] < cfg.debug_prob /\ Debuggable # {}

ReviewIsDict == response[1].type = "dict"
ReviewFlagsBug == response[1].is_bug = Some(TRUE)
ExecRaised == exec_result[1].exc_type # None

\* buggy exactly with the worst metric; good with an ordinary, non-null one
MetricMatchesVerdict(node) ==
    /\ node.is_buggy \in {Some(TRUE), Some(FALSE)}
    /\ node.is_buggy = Some(TRUE) <=> node.metric = Some(WorstMetricValue)
    /\ node.is_buggy = Some(FALSE) =>
          /\ node.metric[1].kind = "MetricValue"
          /\ node.metric[1].value # None

\* ------------------------------------------------------------------------
\* C1: while the journal holds fewer than num_drafts drafts, search_policy
\* returns None (draft), whatever the draw, the configuration and the
\* buggy/good status of the nodes.
\* ------------------------------------------------------------------------
C1_DraftWhileQuotaUnmet ==
    (InStep /\ Cardinality(draft_nodes(journal)) < cfg.num_drafts) => parent_node = None

\* a buggy leaf is there and debugging is certain, yet a draft is selected
C1_Witness ==
    /\ pc = "selected"
    /\ Cardinality(draft_nodes(journal)) < cfg.num_drafts
    /\ cfg.debug_prob = 100
    /\ Debuggable # {}
    /\ parent_node = None

\* ------------------------------------------------------------------------
\* C2: for a dict review, is_buggy is true iff the review flags a bug, or the
\* execution recorded an exception, or the checked metric is null; otherwise
\* it is false.
\* ------------------------------------------------------------------------
C2_BuggyIffAnySignal ==
    (pc = "reviewed" /\ ReviewIsDict) =>
        /\ result_node[1].is_buggy \in {Some(TRUE), Some(FALSE)}
        /\ result_node[1].is_buggy = Some(TRUE) <=>
              (ReviewFlagsBug \/ ExecRaised \/ checked_metric(response[1].metric) = None)

\* the missing metric alone makes the node buggy
C2_Witness ==
    /\ pc = "reviewed" /\ ReviewIsDict
    /\ ~ ReviewFlagsBug /\ ~ ExecRaised
    /\ response[1].metric = None
    /\ result_node[1].is_buggy = Some(TRUE)

\* ------------------------------------------------------------------------
\* C3: a node whose execution recorded an exception is buggy with
\* WorstMetricValue after parse_exec_result, also when the review says
\* is_bug = false and gives a numeric metric; so is every such node of the
\* journal.
\* ------------------------------------------------------------------------
C3_ExceptionIsBuggy ==
    /\ (pc = "reviewed" /\ ExecRaised) =>
          /\ result_node[1].exc_type # None
          /\ result_node[1].is_buggy = Some(TRUE)
          /\ result_node[1].metric = Some(WorstMetricValue)
    /\ \A n \in nodes(journal) :
          journal[n].exc_type # None =>
              /\ journal[n].is_buggy = Some(TRUE)
              /\ journal[n].metric = Some(WorstMetricValue)

C3_Witness ==
    /\ pc = "reviewed" /\ ExecRaised /\ ReviewIsDict
    /\ response[1].is_bug = Some(FALSE)
    /\ response[1].metric # None /\ response[1].metric[1].type = "float"
    /\ result_node[1].is_buggy = Some(TRUE)

\* ------------------------------------------------------------------------
\* C4: a review response that is no dict leaves the node buggy, with
\* WorstMetricValue and a non-empty analysis; parse_exec_result raises
\* nothing, and step() appends that node to the journal.
\* ------------------------------------------------------------------------
C4_InvalidReviewKept ==
    [][/\ (pc = "executed" /\ response'[1].type # "dict") =>
             /\ pc' = "reviewed"
             /\ result_node'[1].is_buggy = Some(TRUE)
             /\ result_node'[1].metric = Some(WorstMetricValue)
             /\ result_node'[1].analysis # None
             /\ result_node'[1].analysis[1] # ""
       /\ (pc = "reviewed" /\ response[1].type # "dict") =>
             /\ pc' = "idle"
             /\ Len(journal') = Len(journal) + 1
             /\ [journal'[Len(journal')] EXCEPT !.step = None] = result_node[1]]_vars

\* the node of an invalid review is in the journal
C4_Witness ==
    \E n \in nodes(journal) :
        /\ journal[n].analysis = Some(InvalidAnalysis)
        /\ journal[n].is_buggy = Some(TRUE)
        /\ journal[n].metric = Some(WorstMetricValue)

\* ------------------------------------------------------------------------
\* C5: every node of the journal is buggy iff its metric is
\* WorstMetricValue, and a good node has an ordinary MetricValue with a
\* non-null value; the maximize flag a review gives a good node is the
\* negation of its lower_is_better (taken as true when the review has none).
\* ------------------------------------------------------------------------
C5_MetricMatchesVerdict ==
    /\ \A n \in nodes(journal) : MetricMatchesVerdict(journal[n])
    /\ pc = "reviewed" =>
          /\ MetricMatchesVerdict(result_node[1])
          /\ (result_node[1].is_buggy = Some(FALSE) /\ response[1].lower_is_better # None) =>
                result_node[1].metric[1].maximize = ~ response[1].lower_is_better[1]
          /\ (result_node[1].is_buggy = Some(FALSE) /\ response[1].lower_is_better = None) =>
                result_node[1].metric[1].maximize = FALSE

\* a good maximizing node and a buggy node in the journal, and a good node
\* just reviewed as lower-is-better
C5_Witness ==
    /\ pc = "reviewed"
    /\ result_node[1].is_buggy = Some(FALSE)
    /\ response[1].lower_is_better = Some(TRUE)
    /\ \E n \in nodes(journal) :
          journal[n].is_buggy = Some(FALSE) /\ journal[n].metric[1].maximize
    /\ \E n \in nodes(journal) : journal[n].is_buggy = Some(TRUE)

\* ------------------------------------------------------------------------
\* C6: a declared metric counts as absent exactly when it is not numeric; a
\* numeric one, integer or floating point, is retained, so that a clean run
\* (no exception, no bug flagged) with a numeric metric is not buggy.
\* ------------------------------------------------------------------------
IsNumeric(m) == m # None /\ m[1].type \in {"int", "float"}

C6_NumericMetricRetained ==
    (pc = "reviewed" /\ ReviewIsDict /\ ~ ReviewFlagsBug /\ ~ ExecRaised) =>
        IF IsNumeric(response[1].metric)
        THEN /\ result_node[1].is_buggy = Some(FALSE)
             /\ result_node[1].metric[1].kind = "MetricValue"
             /\ result_node[1].metric[1].value = Some(response[1].metric[1].val)
        ELSE result_node[1].is_buggy = Some(TRUE)

C9_DraftWhenNothingToExtend ==
    /\ (InStep /\ QuotaMet /\ good_nodes(journal) = {} /\ ~ DebugFired) =>
          parent_node = None
    /\ (InStep /\ parent_node # None) =>
          ~ (/\ journal[parent_node[1]].is_buggy = Some(TRUE)
             /\ debug_depth(journal, parent_node[1]) > cfg.max_debug_depth)

\* a buggy leaf beyond the depth bound, debugging certain, and a draft selected
C9_Witness ==
    /\ pc = "selected"
    /\ QuotaMet
    /\ good_nodes(journal) = {}
    /\ cfg.debug_prob = 100
    /\ \E n \in buggy_nodes(journal) :
          is_leaf(journal, n) /\ debug_depth(journal, n) > cfg.max_debug_depth
    /\ parent_node = None

\* ------------------------------------------------------------------------
\* C10: with the draft quota met, the debug branch not fired and a good node
\* in the journal, search_policy returns a good node such that no good node
\* is better than it, the earliest created among the equally good.
\* As amended: provided all good nodes of the journal have the same polarity.
\* ------------------------------------------------------------------------
metric_of(n) == journal[n].metric[1]

IsBestGood(p) ==
    /\ journal[p].is_buggy = Some(FALSE)
    /\ \A m \in good_nodes(journal) :
          /\ ~ is_better(metric_of(m), metric_of(p))
          /\ metric_of(m).value = metric_of(p).value => p <= m

SamePolarity ==
    \A a, b \in good_nodes(journal) : metric_of(a).maximize = metric_of(b).maximize

GreedyBranch == InStep /\ QuotaMet /\ ~ DebugFired /\ good_nodes(journal) # {}

\* C10 as written: the returned node is the best good node, whatever the
\* polarities of the good nodes
C10_BestGoodAnyPolarity ==
    GreedyBranch => (parent_node # None /\ IsBestGood(parent_node[1]))

\* C10 as amended: the returned node is the best good node when all good
\* nodes have the same polarity
C10_BestGoodSamePolarity ==
    (GreedyBranch /\ SamePolarity) => (parent_node # None /\ IsBestGood(parent_node[1]))

\* the later of two good nodes of one polarity is the better one and is returned
C10_Witness ==
    /\ pc = "selected"
    /\ GreedyBranch /\ SamePolarity
    /\ parent_node # None
    /\ \E m \in good_nodes(journal) :
          m < parent_node[1] /\ is_better(metric_of(parent_node[1]), metric_of(m))

\* ------------------------------------------------------------------------
\* C11: from the empty journal with num_drafts = N, the first N steps each
\* select a draft and append a parentless node, whatever the draws and the
\* verdicts of the earlier drafts; no node with a parent is appended before
\* the journal holds N drafts.
\* ------------------------------------------------------------------------
C11_FirstStepsDraft ==
    /\ \A n \in nodes(journal) : n <= cfg.num_drafts => journal[n].parent = None
    /\ (InStep /\ Len(journal) < cfg.num_drafts) =>
          /\ parent_node = None
          /\ result_node # None => result_node[1].parent = None

\* two drafts, the first buggy and debugging certain, then a node with a parent
C11_Witness ==
    /\ cfg.num_drafts = 2 /\ cfg.debug_prob = 100
    /\ Len(journal) = 3
    /\ journal[1].is_buggy = Some(TRUE)
    /\ journal[1].parent = None /\ journal[2].parent = None
    /\ journal[3].parent # None

\* ------------------------------------------------------------------------
\* C12: each completed step() appends exactly one node: the journal grows
\* by one, the nodes it held stay in place unchanged, and the journal
\* changes at no other point.
\* ------------------------------------------------------------------------
C12_StepAppendsOneNode ==
    [][/\ journal' # journal => (pc = "reviewed" /\ pc' = "idle")
       /\ (pc # "idle" /\ pc' = "idle") =>
             /\ Len(journal') = Len(journal) + 1
             /\ SubSeq(journal', 1, Len(journal)) = journal
             /\ [journal'[Len(journal')] EXCEPT !.step = None] = result_node[1]]_vars

\* a second step has completed, with a buggy node appended
C12_Witness ==
    /\ pc = "idle"
    /\ Len(journal) = 2
    /\ journal[2].is_buggy = Some(TRUE)

\* ------------------------------------------------------------------------
\* C13: plan_and_code_query issues at most 3 queries; it returns the plan
\* and code of the first completion that yields both and queries no more;
\* after 3 completions that do not, it returns an empty plan and the text of
\* the last completion as code.
\* ------------------------------------------------------------------------
C13_BoundedRetries ==
    [][/\ (pc = "selected" /\ (tries' # tries \/ pc' # pc)) =>
             /\ tries < 3
             /\ completion_text' # None
             /\ IF completion_text'[1].code # "" /\ completion_text'[1].nl_text # ""
                THEN /\ pc' = "generated"
                     /\ plan_code' = Some([plan |-> completion_text'[1].nl_text,
                                           code |-> completion_text'[1].code])
                ELSE IF tries + 1 = 3
                THEN /\ pc' = "generated"
                     /\ plan_code' = Some([plan |-> "", code |-> completion_text'[1].text])
                ELSE /\ pc' = "selected"
                     /\ tries' = tries + 1
                     /\ plan_code' = None
       /\ (pc \in {"generated", "executed"}) =>
             (completion_text' = completion_text /\ plan_code' = plan_code)]_vars

\* the third completion had code but no plan: its text is the code
C13_Witness ==
    /\ pc = "generated"
    /\ completion_text # None
    /\ completion_text[1].code # "" /\ completion_text[1].nl_text = ""
    /\ plan_code = Some([plan |-> "", code |-> completion_text[1].text])

\* ------------------------------------------------------------------------
\* C14: the node a step appends has debug_depth 0 when it is a draft,
\* debug_depth 0 when it improves a good parent, and its parent's
\* debug_depth + 1 when it debugs a buggy parent; the debug_depth of the
\* nodes already in the journal does not change.
\* ------------------------------------------------------------------------
Appended == journal'[Len(journal')]

StepReturns == pc = "reviewed" /\ pc' = "idle"

C14_DebugDepthByMode ==
    [][StepReturns =>
          /\ mode = Some("draft") =>
                (Appended.parent = None /\ debug_depth(journal', Len(journal')) = 0)
          /\ mode = Some("improve") =>
                /\ Appended.parent = parent_node
                /\ journal[parent_node[1]].is_buggy = Some(FALSE)
                /\ debug_depth(journal', Len(journal')) = 0
          /\ mode = Some("debug") =>
                /\ Appended.parent = parent_node
                /\ journal[parent_node[1]].is_buggy = Some(TRUE)
                /\ debug_depth(journal', Len(journal')) =
                      debug_depth(journal', parent_node[1]) + 1
          /\ \A n \in nodes(journal) :
                debug_depth(journal', n) = debug_depth(journal, n)]_vars

\* a debug of a debug: depth 2
C14_Witness ==
    /\ pc = "idle"
    /\ \E n \in nodes(journal) :
          /\ debug_depth(journal, n) = 2
          /\ debug_depth(journal, journal[n].parent[1]) = 1

\* ------------------------------------------------------------------------
\* C15: in step() the node is generated in debug mode exactly when the
\* selected parent is buggy and in improve mode exactly when a parent is
\* selected and it is not buggy; the node appended in improve mode has a
\* good parent and the node appended in debug mode a buggy parent.
\* ------------------------------------------------------------------------
ParentIsBuggy == parent_node # None /\ journal[parent_node[1]].is_buggy = Some(TRUE)

ParentIsGood == parent_node # None /\ journal[parent_node[1]].is_buggy = Some(FALSE)

C15_ModeFollowsParent ==
    [][/\ (pc' \in {"generated", "executed", "reviewed"}) =>
             /\ (mode' = Some("debug")) <=> ParentIsBuggy'
             /\ (mode' = Some("improve")) <=> ParentIsGood'
             /\ (mode' = Some("draft")) <=> (parent_node' = None)
             /\ result_node'[1].parent = parent_node'
       /\ StepReturns =>
             /\ mode = Some("improve") =>
                   (Appended.parent # None
                      /\ journal'[Appended.parent[1]].is_buggy = Some(FALSE))
             /\ mode = Some("debug") =>
                   (Appended.parent # None
                      /\ journal'[Appended.parent[1]].is_buggy = Some(TRUE))]_vars

\* a buggy draft, its good debug, and an improvement of that
C15_Witness ==
    /\ pc = "idle"
    /\ Len(journal) = 3
    /\ journal[1].is_buggy = Some(TRUE)
    /\ journal[2].parent = Some(1) /\ journal[2].is_buggy = Some(FALSE)
    /\ journal[3].parent = Some(2)

\* ------------------------------------------------------------------------
\* C16: when the journal has good nodes, all of one polarity, get_best_node
\* returns a good node whose metric is >= (maximize) or <= (minimize) that
\* of every good node, and of the nodes with that metric the one with the
\* smallest step.
\* ------------------------------------------------------------------------
BestOfGood(b) ==
    /\ b \in nodes(journal)
    /\ journal[b].is_buggy = Some(FALSE)
    /\ \A m \in good_nodes(journal) :
          /\ journal[b].metric[1].maximize =>
                journal[b].metric[1].value[1] >= journal[m].metric[1].value[1]
          /\ ~ journal[b].metric[1].maximize =>
                journal[b].metric[1].value[1] <= journal[m].metric[1].value[1]
          /\ journal[b].metric[1].value = journal[m].metric[1].value =>
                journal[b].step[1] <= journal[m].step[1]

C16_BestNodeOfOnePolarity ==
    (good_nodes(journal) # {} /\ SamePolarity) =>
        \A only_good \in BOOLEAN :
            /\ get_best_node(journal, only_good) # None
            /\ BestOfGood(get_best_node(journal, only_good)[1])

\* three good nodes to maximize, the best value reported twice: the earlier wins
C16_Witness ==
    /\ Len(journal) = 3
    /\ \A n \in nodes(journal) :
          journal[n].is_buggy = Some(FALSE) /\ journal[n].metric[1].maximize
    /\ journal[1].metric[1].value = Some(1)
    /\ journal[2].metric[1].value = Some(2)
    /\ journal[3].metric[1].value = Some(2)
    /\ get_best_node(journal, TRUE) = Some(2)

\* ------------------------------------------------------------------------
\* C17: get_best_node on an empty candidate set returns None: on the empty
\* journal, and with only_good when every node is buggy.
\* ------------------------------------------------------------------------
C17_NoCandidateNoBest ==
    /\ journal = <<>> =>
          (get_best_node(journal, FALSE) = None /\ get_best_node(journal, TRUE) = None)
    /\ (\A n \in nodes(journal) : journal[n].is_buggy = Some(TRUE)) =>
          get_best_node(journal, TRUE) = None

\* a journal of buggy nodes only
C17_Witness ==
    /\ Len(journal) >= 2
    /\ \A n \in nodes(journal) : journal[n].is_buggy = Some(TRUE)
    /\ get_best_node(journal, TRUE) = None
    /\ get_best_node(journal, FALSE) # None

\* ------------------------------------------------------------------------
\* C18: WorstMetricValue is never better than an ordinary MetricValue of
\* either polarity, every ordinary MetricValue is better than
\* WorstMetricValue, and WorstMetricValue against itself is a draw; so a
\* buggy node never wins a best-node selection over a good node.
\* ------------------------------------------------------------------------
OrdinaryMetrics == {MetricValue(Some(v), mx) : v \in 1..MaxMetric, mx \in BOOLEAN}

C18_WorstAlwaysLoses ==
    /\ \A m \in OrdinaryMetrics :
          ~ is_better(WorstMetricValue, m) /\ is_better(m, WorstMetricValue)
    /\ ~ is_better(WorstMetricValue, WorstMetricValue)
    /\ \A b \in nodes(journal) : journal[b].is_buggy = Some(TRUE) =>
          /\ journal[b].metric = Some(WorstMetricValue)
          /\ \A g \in nodes(journal) : journal[g].is_buggy = Some(FALSE) =>
                /\ journal[g].metric[1] \in OrdinaryMetrics
                /\ ~ is_better(journal[b].metric[1], journal[g].metric[1])
                /\ is_better(journal[g].metric[1], journal[b].metric[1])
    /\ (\E g \in nodes(journal) : journal[g].is_buggy = Some(FALSE)) =>
          \A only_good \in BOOLEAN :
              /\ get_best_node(journal, only_good) # None
              /\ journal[get_best_node(journal, only_good)[1]].is_buggy = Some(FALSE)

\* buggy nodes before and after a good one, and the good one selected
C18_Witness ==
    /\ Len(journal) = 3
    /\ journal[1].is_buggy = Some(TRUE)
    /\ journal[2].is_buggy = Some(FALSE)
    /\ journal[3].is_buggy = Some(TRUE)
    /\ get_best_node(journal, FALSE) = Some(2)

\* ------------------------------------------------------------------------
\* C19: the journal is a forest: the parent of a node is in the journal at
\* a strictly smaller step, the step values strictly increase in append
\* order, and the debug_depth of a node follows from its chain of parents;
\* the parent selected for the node in the making is in the journal.
\* ------------------------------------------------------------------------
StepOf(n) == journal[n].step[1]

C19_JournalIsForest ==
    /\ \A n \in nodes(journal) :
          /\ journal[n].step # None
          /\ \A m \in nodes(journal) : m < n => StepOf(m) < StepOf(n)
          /\ journal[n].parent # None =>
                /\ journal[n].parent[1] \in nodes(journal)
                /\ StepOf(journal[n].parent[1]) < StepOf(n)
          /\ debug_depth(journal, n) \in 0..(n - 1)
          /\ (debug_depth(journal, n) > 0) =>
                /\ journal[n].parent # None
                /\ journal[journal[n].parent[1]].is_buggy = Some(TRUE)
                /\ debug_depth(journal, n) =
                      debug_depth(journal, journal[n].parent[1]) + 1
          /\ (debug_depth(journal, n) = 0 /\ journal[n].parent # None) =>
                journal[journal[n].parent[1]].is_buggy = Some(FALSE)
    /\ (InStep /\ parent_node # None) => parent_node[1] \in nodes(journal)
    /\ (result_node # None /\ result_node[1].parent # None) =>
          result_node[1].parent[1] \in nodes(journal)

\* a root with two children
C19_Witness ==
    /\ pc = "idle"
    /\ Len(journal) = 3
    /\ journal[1].parent = None
    /\ journal[2].parent = Some(1)
    /\ journal[3].parent = Some(1)
    /\ StepOf(1) < StepOf(2) /\ StepOf(2) < StepOf(3)

\* ------------------------------------------------------------------------
\* C20: with a corrupt search configuration such as a negative debug_prob,
\* search_policy does not go on to select a node: once the policy has
\* compared its random draw with debug_prob, step() has ended in an error.
\* ------------------------------------------------------------------------
C20_CorruptConfigIsFatal ==
    (cfg.debug_prob < 0 /\ draw # None) => pc = "raised"

\* ------------------------------------------------------------------------
\* C21: search_policy is deterministic: evaluated again on the same journal
\* and configuration with the same values from the random source it returns
\* the same result, whatever else the agent holds at the time of the call.
\* ------------------------------------------------------------------------
EvaluatedAgain == pc = "selected" /\ pc' = "reselected"

PolicyEvaluated == pc = "idle" /\ pc' = "selected"

C22_PolicyReadsOnly ==
    [][PolicyEvaluated =>
          /\ Len(journal') = Len(journal)
          /\ \A n \in nodes(journal) :
                /\ journal'[n] = journal[n]
                /\ children(journal', n) = children(journal, n)
                /\ debug_depth(journal', n) = debug_depth(journal, n)
          /\ cfg' = cfg]_vars

\* a node of a journal of two was selected
C22_Witness ==
    /\ pc = "selected"
    /\ Len(journal) = 2
    /\ parent_node # None

\* ------------------------------------------------------------------------
\* C23: within a step() the stages come in the order selection, plan+code
\* query, execution, review query, append: the execution callback is called
\* once, after the candidate code exists; the review query is issued after
\* the execution result was absorbed; the append is last, so every node of
\* the journal has its is_buggy and metric.
\* ------------------------------------------------------------------------
StageOrder ==
    {<<"idle", "selected">>, <<"selected", "generated">>, <<"generated", "executed">>,
     <<"executed", "reviewed">>, <<"reviewed", "idle">>}

C23_StagesInOrder ==
    [][/\ pc' # pc => <<pc, pc'>> \in StageOrder
       /\ exec_result' # exec_result =>
             \/ /\ pc = "generated" /\ pc' = "executed"
                /\ exec_result = None /\ exec_result' # None
                /\ plan_code # None /\ result_node # None
             \/ /\ pc = "reviewed" /\ pc' = "idle" /\ exec_result' = None
       /\ pc' = "executed" => (exec_result' # None /\ response' = None)
       /\ response' # response =>
             \/ /\ pc = "executed" /\ pc' = "reviewed"
                /\ response = None /\ response' # None
                /\ exec_result # None
                /\ result_node'[1].exc_type = exec_result[1].exc_type
             \/ /\ pc = "reviewed" /\ pc' = "idle" /\ response' = None
       /\ journal' # journal =>
             /\ pc = "reviewed" /\ pc' = "idle"
             /\ exec_result # None /\ response # None
       /\ \A n \in nodes(journal') :
             journal'[n].is_buggy # None /\ journal'[n].metric # None]_vars

\* a second step has reached its review with everything before it done
C23_Witness ==
    /\ pc = "reviewed"
    /\ Len(journal) >= 1
    /\ plan_code # None /\ exec_result # None /\ response # None
    /\ result_node[1].is_buggy # None /\ result_node[1].metric # None

\* ------------------------------------------------------------------------
\* C24: a node in the journal is never changed by a later step(): its plan,
\* code, execution telemetry, analysis, is_buggy, metric and debug_depth
\* stay as appended, and the journal a reader sees only grows at its end.
\* ------------------------------------------------------------------------
C24_AppendedNodesFrozen ==
    [][/\ Len(journal') >= Len(journal)
       /\ \A n \in nodes(journal) :
             /\ journal'[n].plan = journal[n].plan
             /\ journal'[n].code = journal[n].code
             /\ journal'[n].exc_type = journal[n].exc_type
             /\ journal'[n].analysis = journal[n].analysis
             /\ journal'[n].is_buggy = journal[n].is_buggy
             /\ journal'[n].metric = journal[n].metric
             /\ journal'[n].step = journal[n].step
             /\ journal'[n].parent = journal[n].parent
             /\ debug_depth(journal', n) = debug_depth(journal, n)]_vars

\* a node kept through the debugging of it and through a further step
C24_Witness ==
    /\ pc = "idle"
    /\ Len(journal) = 3
    /\ journal[1].plan = "" /\ journal[1].is_buggy = Some(TRUE)
    /\ journal[2].parent = Some(1) /\ journal[2].plan # ""
    /\ journal[3].parent # None

\* ------------------------------------------------------------------------
\* C25: a step() in which a recoverable fault occurred (plan/code extraction
\* failed 3 times, the candidate code raised, the review response was not a
\* well-formed object or lacked its metric) ends by appending a node, and
\* that node is a buggy leaf.
\* ------------------------------------------------------------------------
ExtractionFailed == plan_code # None /\ plan_code[1].plan = ""

ReviewMalformed ==
    /\ response # None
    /\ (response[1].type # "dict" \/ response[1].metric = None)

RecoverableFault == ExtractionFailed \/ ExecRaised \/ ReviewMalformed

C25_FaultyStepAppendsBuggyLeaf ==
    [][/\ (pc = "executed" /\ pc' # pc) => pc' = "reviewed"
       /\ (StepReturns /\ RecoverableFault) =>
             /\ Len(journal') = Len(journal) + 1
             /\ Appended.is_buggy = Some(TRUE)
             /\ children(journal', Len(journal')) = {}]_vars

\* ------------------------------------------------------------------------
\* C27 as written: every node's debug_depth is at most max_debug_depth + 1,
\* and no node with debug_depth > max_debug_depth ever receives a child.
\* ------------------------------------------------------------------------
TooDeep(n) == debug_depth(journal, n) > cfg.max_debug_depth

C27_NoChildBeyondDepth ==
    \A n \in nodes(journal) :
        /\ debug_depth(journal, n) <= cfg.max_debug_depth + 1
        /\ TooDeep(n) => children(journal, n) = {}

\* ------------------------------------------------------------------------
\* C27 as amended: every node's debug_depth is at most max_debug_depth + 1,
\* and no buggy node with debug_depth > max_debug_depth ever receives a
\* child; a good node of that depth may be improved, and its children have
\* debug_depth 0.
\* ------------------------------------------------------------------------
C27_NoDebugBeyondDepth ==
    /\ \A n \in nodes(journal) :
          /\ debug_depth(journal, n) <= cfg.max_debug_depth + 1
          /\ (TooDeep(n) /\ journal[n].is_buggy = Some(TRUE)) => children(journal, n) = {}
          /\ (TooDeep(n) /\ children(journal, n) # {}) =>
                \A m \in children(journal, n) : debug_depth(journal, m) = 0
    /\ (InStep /\ parent_node # None /\ TooDeep(parent_node[1])) =>
          journal[parent_node[1]].is_buggy = Some(FALSE)

\* a buggy debug attempt beyond the bound is left alone though debugging is
\* certain: the policy drafts
C27_Witness ==
    /\ pc = "selected"
    /\ cfg.debug_prob = 100 /\ cfg.max_debug_depth = 0
    /\ Len(journal) = 2
    /\ journal[1].is_buggy = Some(TRUE)
    /\ journal[2].parent = Some(1) /\ journal[2].is_buggy = Some(TRUE)
    /\ TooDeep(2)
    /\ draw # None /\ parent_node = None

\* ------------------------------------------------------------------------
\* C28: run_experiment_async sets the status to RUNNING before the first
\* agent step and ends with the status COMPLETED, with progress 1.0 after
\* exactly num_steps agent steps, or FAILED with the error message set when
\* something raised; the status is never RUNNING once the call has returned,
\* and the call is never stuck before it returns.
\* ------------------------------------------------------------------------
RunReturned == run[1].pc = "returned"

AgentStepsDone == Len(journal)

C28_RunEndsCompletedOrFailed ==
    /\ (InStep \/ AgentStepsDone > 0) => experiment.status # "pending"
    /\ (InStep /\ run[1].pc # "except" /\ ~ RunReturned) => experiment.status = "running"
    /\ RunReturned =>
          /\ experiment.status \in {"completed", "failed"}
          /\ experiment.status = "completed" =>
                /\ experiment.progress = 100
                /\ AgentStepsDone = experiment.num_steps
                /\ experiment.current_step = experiment.num_steps
                /\ run[1].error = None
                /\ experiment.error_message = None
          /\ experiment.status = "failed" =>
                /\ experiment.error_message # None
                /\ run[1].error # None
                /\ AgentStepsDone <= experiment.num_steps
    /\ ~ RunReturned => ENABLED NextRun

\* the second of two steps raised: FAILED after one completed step
C28_Witness ==
    /\ RunReturned
    /\ experiment.status = "failed"
    /\ experiment.num_steps = 2
    /\ experiment.current_step = 1
    /\ AgentStepsDone = 1
    /\ experiment.error_message # None

\* ------------------------------------------------------------------------
\* C30: on completion the stored best solution is the code of
\* get_best_node(only_good=True) when a good node exists, with its metric;
\* when every node is buggy it is the code of the first journal node with a
\* null best_metric_value; for an empty journal both are null. A buggy
\* node's code is not reported while a good node exists.
\* ------------------------------------------------------------------------
RunCompleted == RunReturned /\ experiment.status = "completed"

SomeGood == \E n \in nodes(journal) : journal[n].is_buggy = Some(FALSE)

C30_BestSolutionStored ==
    /\ RunCompleted =>
          /\ SomeGood =>
                /\ get_best_node(journal, TRUE) # None
                /\ journal[get_best_node(journal, TRUE)[1]].is_buggy = Some(FALSE)
                /\ experiment.best_solution_code =
                      Some(journal[get_best_node(journal, TRUE)[1]].code)
                /\ experiment.best_metric_value =
                      journal[get_best_node(journal, TRUE)[1]].metric[1].value
                /\ experiment.best_metric_value # None
          /\ (~ SomeGood /\ journal # <<>>) =>
                /\ experiment.best_solution_code = Some(journal[1].code)
                /\ experiment.best_metric_value = None
          /\ journal = <<>> =>
                /\ experiment.best_solution_code = None
                /\ experiment.best_metric_value = None
    /\ best_solution_code(<<>>) = None
    /\ best_metric_value(<<>>) = None

\* a buggy first node with other code than the good second one: the second is stored
C30_Witness ==
    /\ RunCompleted
    /\ Len(journal) = 2
    /\ journal[1].is_buggy = Some(TRUE)
    /\ journal[2].is_buggy = Some(FALSE)
    /\ journal[1].code # journal[2].code
    /\ experiment.best_solution_code = Some(journal[2].code)

\* ------------------------------------------------------------------------
\* C29: at most one background run is active for the experiment at any
\* time: a POST /run for an experiment that is already running is rejected
\* with HTTP 400 and starts no second background task, also when two run
\* requests arrive back to back.
\* ------------------------------------------------------------------------
ActiveRuns == {t \in Tasks : run[t].pc \notin {"none", "returned"}}

C29_AtMostOneActiveRun == Cardinality(ActiveRuns) <= 1

\* ------------------------------------------------------------------------
\* C26: two independent experiments interleaved in one process do not
\* affect each other: the construction and the steps of the one leave the
\* agent, journal and prompt loader of the other unchanged, and every step
\* of the followed experiment is a step it can take when it runs alone.
\* ------------------------------------------------------------------------
OtherActs == other' # other

AgentActs == agent_vars' # agent_vars \/ prompts' # prompts

StepAlone ==
    \/ SearchPolicy
    \/ PlanAndCodeQuery
    \/ ExecCallback
    \/ ParseExecResult
    \/ JournalAppend

ChildrenOf(n) == {m \in nodes(journal) : journal[m].parent = Some(n)}

C37_BuggyNodeOneChild ==
    /\ \A n \in nodes(journal) :
          Cardinality(ChildrenOf(n)) > 1 => journal[n].is_buggy = Some(FALSE)
    /\ (pc = "reviewed" /\ parent_node # None /\ journal[parent_node[1]].is_buggy = Some(TRUE))
          => ChildrenOf(parent_node[1]) = {}

\* a buggy draft debugged once, with further steps taken elsewhere
C37_Witness ==
    /\ Len(journal) = 3
    /\ journal[1].is_buggy = Some(TRUE)
    /\ ChildrenOf(1) = {2}
    /\ journal[3].parent # Some(1)
    /\ cfg.debug_prob = 100

\* ------------------------------------------------------------------------
\* C38: step() starts a draft only when the journal has fewer than
\* num_drafts drafts or no good node; once it holds num_drafts drafts and a
\* good node, that stays so and the number of drafts never grows again.
\* ------------------------------------------------------------------------
DraftCount == Cardinality({n \in nodes(journal) : journal[n].parent = None})

Saturated ==
    /\ DraftCount >= cfg.num_drafts
    /\ \E n \in nodes(journal) : journal[n].is_buggy = Some(FALSE)

DraftStarted == pc = "idle" /\ pc' = "selected" /\ parent_node' = None

C38_NoDraftOnceSaturated ==
    [][/\ DraftStarted => ~Saturated
       /\ DraftCount' > DraftCount => ~Saturated
       /\ Saturated => (Saturated' /\ DraftCount' = DraftCount)]_vars

\* two drafts, one of them good, and a third node that is not a draft
C38_Witness ==
    /\ cfg.num_drafts = 2
    /\ Len(journal) = 3
    /\ journal[1].parent = None /\ journal[2].parent = None
    /\ journal[2].is_buggy = Some(FALSE)
    /\ journal[3].parent # None

\* ------------------------------------------------------------------------
\* C39: with debug_prob = 0 no debug node is ever created: every appended
\* node is a draft or the improvement of a good node, no step runs in debug
\* mode and every buggy node stays a leaf.
\* ------------------------------------------------------------------------
NeverDebugs == cfg.debug_prob = 0

C39_NoDebugAtProbZero ==
    NeverDebugs =>
        /\ \A n \in nodes(journal) :
              \/ journal[n].parent = None
              \/ journal[journal[n].parent[1]].is_buggy = Some(FALSE)
        /\ \A n \in nodes(journal) :
              journal[n].is_buggy = Some(TRUE) =>
                  \A m \in nodes(journal) : journal[m].parent # Some(n)
        /\ mode # Some("debug")
        /\ parent_node # None => journal[parent_node[1]].is_buggy = Some(FALSE)

\* a buggy draft left alone while the good draft is improved
C39_Witness ==
    /\ NeverDebugs
    /\ Len(journal) = 3
    /\ journal[1].is_buggy = Some(TRUE)
    /\ journal[2].is_buggy = Some(FALSE)
    /\ journal[3].parent = Some(2)
    /\ draw = None /\ pc = "idle"

\* ------------------------------------------------------------------------
\* C33: after every completed iteration of run_experiment_async, and at
\* completion, the stored ExperimentNode rows correspond one-to-one to the
\* journal's nodes: as many rows as nodes and no step stored twice.
\* ------------------------------------------------------------------------
IterationDone == \E t \in Tasks : run[t].pc = "loop" /\ run[t].step >= 1

C33_RowsMatchJournal ==
    (IterationDone \/ experiment.status = "completed") =>
        /\ Len(rows) = Len(journal)
        /\ \A m, n \in 1..Len(rows) : m # n => rows[m].step # rows[n].step

\* ------------------------------------------------------------------------
\* C31: the best node of the analysis report is a stored node that is not
\* buggy and has a metric, the minimum metric for a lower-is-better
\* experiment and the maximum otherwise; for a completed experiment it is
\* the node whose metric the run stored as best, under both polarities.
\* ------------------------------------------------------------------------
GoodNodes == {n \in nodes(journal) : journal[n].is_buggy = Some(FALSE)}

LowerIsBetter == GoodNodes # {} /\ \A n \in GoodNodes : ~journal[n].metric[1].maximize

HigherIsBetter == GoodNodes # {} /\ \A n \in GoodNodes : journal[n].metric[1].maximize

ReportedBest == report[1].best_node[1]

StoredMetrics ==
    {rows[n].metric_value[1] : n \in {k \in 1..Len(rows) :
                                        ~rows[k].is_buggy /\ rows[k].metric_value # None}}

C31_ReportBestIsRunBest ==
    (experiment.status = "completed" /\ report # None /\ report[1].best_node # None) =>
        /\ ~ReportedBest.is_buggy
        /\ ReportedBest.metric_value # None
        /\ LowerIsBetter =>
              /\ \A v \in StoredMetrics : ReportedBest.metric_value[1] <= v
              /\ ReportedBest.metric_value = experiment.best_metric_value
        /\ HigherIsBetter =>
              /\ \A v \in StoredMetrics : ReportedBest.metric_value[1] >= v
              /\ ReportedBest.metric_value = experiment.best_metric_value

\* ------------------------------------------------------------------------
\* C32: a generate_analysis_report call that fails validation (the
\* experiment is not completed) raises and leaves the stored report
\* unchanged: a report generated before still exists afterwards.
\* ------------------------------------------------------------------------
GenerationFailed ==
    \E a \in Analyses :
        /\ api[a].pc = "read"
        /\ api'[a].pc = "responded"
        /\ api'[a].code = Some(500)

C32_FailedGenerationKeepsReport ==
    [][GenerationFailed => report' = report]_vars

\* ------------------------------------------------------------------------
\* C34: during run_experiment_async the stored current_step is the number
\* of agent steps the run has completed, never decreases and never exceeds
\* num_steps; progress is current_step / num_steps, within [0, 1] and never
\* decreasing; a COMPLETED experiment has current_step = num_steps.
\* ------------------------------------------------------------------------
StepsCompletedStored(e, r) ==
    \A t \in Tasks : r[t].pc = "loop" => e.current_step = r[t].step

C34_ProgressTracksSteps ==
    [][/\ StepsCompletedStored(experiment', run')
       /\ experiment'.current_step >= experiment.current_step
       /\ experiment'.current_step <= experiment'.num_steps
       /\ experiment'.progress = (experiment'.current_step * 100) \div experiment'.num_steps
       /\ experiment'.progress >= 0 /\ experiment'.progress <= 100
       /\ experiment'.progress >= experiment.progress
       /\ experiment'.status = "completed" =>
             experiment'.current_step = experiment'.num_steps]_vars

\* ------------------------------------------------------------------------
\* C35: while a websocket client is connected for the experiment,
\* active_connections holds the connection of a connected client, under any
\* interleaving of connects and disconnects of several clients; a
\* disconnecting client removes only its own registration.
\* ------------------------------------------------------------------------
Connected(socks, c) == socks[c] \in {"registered", "open", "lost"}

Disconnects(c) == sockets[c] = "lost" /\ sockets'[c] = "gone"

C35_ConnectedClientRegistered ==
    [][/\ (\E c \in Clients : Connected(sockets', c)) =>
             /\ active_connections' # None
             /\ Connected(sockets', active_connections'[1])
       /\ \A c \in Clients :
             (Disconnects(c) /\ active_connections # Some(c)) =>
                 active_connections' = active_connections]_vars

\* ------------------------------------------------------------------------
\* C36: websocket delivery never influences the experiment's outcome: with
\* no client, a client lost during the run or a send that raises, every
\* step of run_experiment_async changes the experiment, the journal and the
\* stored rows exactly as the run with a healthy connection does, and a run
\* in which nothing else raised ends COMPLETED with all its steps done.
\* ------------------------------------------------------------------------
HealthyRunStep ==
    \/ RunGetExperiment(1)
    \/ RunSetRunning(1)
    \/ RunInitialize(1)
    \/ RunBeginStep(1)
    \/ RunEndStep(1)
    \/ RunSaveStep(1)
    \/ RunRaises(1)
    \/ RunExcept(1)
    \/ RunComplete(1, journal)

C36_DeliveryNeverChangesRun ==
    [][/\ run' # run => HealthyRunStep
       /\ (run'[1].pc = "returned" /\ run'[1].error = None) =>
             /\ experiment'.status = "completed"
             /\ experiment'.current_step = experiment'.num_steps
             /\ experiment'.progress = 100
             /\ Len(journal') = experiment'.num_steps]_vars

\* a completed run of which the registered client, lost on the way, got the
\* first message only
C36_Witness ==
    /\ experiment.status = "completed"
    /\ experiment.num_steps = 2
    /\ sent = <<"status_update">>
    /\ active_connections # None
    /\ sockets[active_connections[1]] = "lost"
====
